---- MODULE Spec2Model ----
(***************************************************************************)
(* Model of solver_backend/src/handlers/game.rs: the find_letters handler  *)
(* (bearer-token gate, construction of the SQL query, the query against    *)
(* word_list, mapping of the outcome to an HTTP response).                 *)
(*                                                                         *)
(* Strings are sequences of one-character strings, so that ILIKE and the   *)
(* two regular-expression operators can be evaluated character by          *)
(* character.  A header value is a sequence of chunks ("Bearer ", a token  *)
(* body, ...), which is what starts_with / trim_start_matches look at.     *)
(***************************************************************************)
EXTENDS Integers, Sequences, FiniteSets, TLC

VARIABLES inv, corpus, failed

vars == <<inv, corpus, failed>>

(***************************************************************************)
(* Bounds                                                                  *)
(***************************************************************************)
MaxLen == 2        \* longest enumerated exact pattern
MaxLetters == 3    \* most letters in correct and incorrect together
NInv == 2          \* invocations in flight in the concurrent specification

(***************************************************************************)
(* Characters                                                              *)
(***************************************************************************)
\* case folding done by ILIKE and ~* (letters of the model's alphabet)
Fold(c) ==
  CASE c = "A" -> "a"
    [] c = "B" -> "b"
    [] c = "E" -> "e"
    [] c = "L" -> "l"
    [] c = "P" -> "p"
    [] OTHER -> c

FoldWord(w) == [k \in 1..Len(w) |-> Fold(w[k])]

(***************************************************************************)
(* Authorization header (game.rs 14-25) and the token check (game.rs 35)   *)
(***************************************************************************)
\* body of a header value with every leading "Bearer " removed
RECURSIVE trim_start_matches(_)
trim_start_matches(v) ==
  IF v # <<>> /\ Head(v) = "Bearer " THEN trim_start_matches(Tail(v)) ELSE v

\* Option<String>: [some |-> FALSE] is None
get_bearer_token(h) ==
  IF ~h.present THEN [some |-> FALSE, tok |-> <<>>]
  ELSE IF ~h.visible THEN [some |-> FALSE, tok |-> <<>>]
  ELSE IF h.value # <<>> /\ Head(h.value) = "Bearer "
       THEN [some |-> TRUE, tok |-> trim_start_matches(h.value)]
  ELSE [some |-> FALSE, tok |-> <<>>]

\* utils::jwt_utils::verify_token: Result<bool, _> for a token body
verify_token(tok) ==
  IF tok = <<"good">> THEN "OkTrue"
  ELSE IF tok = <<"revoked">> THEN "OkFalse"
  ELSE "Err"

\* mutation: unwrap_or(true)
token_valid_or_true(tok) == verify_token(tok) # "OkFalse"

\* verify_token(..).unwrap_or(false)
token_valid(tok) == verify_token(tok) = "OkTrue"

\* both early returns of find_letters passed
Authorized(h) ==
  LET t == get_bearer_token(h) IN t.some /\ token_valid(t.tok)

(***************************************************************************)
(* The query of game.rs 41-46 and what PostgreSQL does with it             *)
(***************************************************************************)
\* one "(?=.*c)" group per character of letters.correct
correct_pattern(correct) == [k \in 1..Len(correct) |-> correct[k]]

\* the three spliced parts of the WHERE clause
build_query(letters) ==
  [like |-> letters.exact,
   lookaheads |-> correct_pattern(letters.correct),
   bracket |-> letters.incorrect]

\* LIKE matching: '_' is any one character, '%' any run of characters,
\* anything else matches itself (case-folded when ci)
RECURSIVE LikeMatch(_, _, _)
LikeMatch(w, p, ci) ==
  IF p = <<>> THEN w = <<>>
  ELSE IF Head(p) = "%"
       THEN LikeMatch(w, Tail(p), ci) \/ (w # <<>> /\ LikeMatch(Tail(w), p, ci))
  ELSE /\ w # <<>>
       /\ \/ Head(p) = "_"
          \/ IF ci THEN Fold(Head(w)) = Fold(Head(p)) ELSE Head(w) = Head(p)
       /\ LikeMatch(Tail(w), Tail(p), ci)

\* mutation: case-sensitive LIKE
ILike_sensitive(w, p) == LikeMatch(w, p, FALSE)

\* mutation: pattern wrapped in '%...%'
ILike_contains(w, p) == LikeMatch(w, <<"%">> \o p \o <<"%">>, TRUE)

\* mutation: pattern compared literally, '_' escaped
ILike_literal(w, p) ==
  /\ Len(w) = Len(p)
  /\ \A k \in 1..Len(p) : Fold(w[k]) = Fold(p[k])

\* word ILIKE '<exact>'
ILike(w, p) == LikeMatch(w, p, TRUE)

\* mutation: ".*c1.*c2" instead of lookaheads: letters must occur in order
RECURSIVE RegexLookaheads_ordered(_, _)
RegexLookaheads_ordered(w, groups) ==
  IF groups = <<>> THEN TRUE
  ELSE \E j \in 1..Len(w) :
         /\ Fold(w[j]) = Fold(Head(groups))
         /\ RegexLookaheads_ordered(SubSeq(w, j + 1, Len(w)), Tail(groups))

\* word ~* '(?=.*c1)(?=.*c2)...': an unanchored match starting at some
\* position from which every lookahead finds its letter
RegexLookaheads(w, groups) ==
  \E start \in 1..(Len(w) + 1) :
    \A k \in 1..Len(groups) :
      \E j \in start..Len(w) : Fold(w[j]) = Fold(groups[k])

\* '.*[<incorrect>].*' compiles only if the bracket expression is closed:
\* with nothing spliced in, "[]" opens a bracket whose first member is ']'
RegexBracketValid(bracket) == bracket # <<>>

\* word ~* '.*[<incorrect>].*'
RegexBracket(w, bracket) ==
  \E j \in 1..Len(w) : \E k \in 1..Len(bracket) : Fold(w[j]) = Fold(bracket[k])

\* mutation: the NOT (...) conjunct left out
Where_no_exclusion(w, q) ==
  ILike(w, q.like) /\ RegexLookaheads(w, q.lookaheads)

\* mutation: correct letters win over incorrect ones
Where_required_wins(w, q) ==
  /\ ILike(w, q.like)
  /\ RegexLookaheads(w, q.lookaheads)
  /\ \A j \in 1..Len(w) :
       (\E k \in 1..Len(q.bracket) : Fold(w[j]) = Fold(q.bracket[k]))
         => \E k \in 1..Len(q.lookaheads) : Fold(w[j]) = Fold(q.lookaheads[k])

\* the first two conjuncts of the WHERE clause
WherePrefix(w, q) == ILike(w, q.like) /\ RegexLookaheads(w, q.lookaheads)

\* the WHERE clause on one row (query known to compile)
Where(w, q) ==
  /\ ILike(w, q.like)
  /\ RegexLookaheads(w, q.lookaheads)
  /\ ~RegexBracket(w, q.bracket)

Select(table, q) == SelectSeq(table, LAMBDA w : Where(w, q))

RowsErr == [ok |-> FALSE, rows |-> <<>>]

\* outcomes of sqlx::query_scalar(&query).fetch_all(&pool.db).await:
\* an error when the database is unreachable or the regex does not compile.
\* The invalid regex is reported when the planner or the executor compiles
\* it; if no row gets past the first two conjuncts the executor may never
\* evaluate the third one.
fetch_all(table, q, up) ==
  IF ~up THEN {RowsErr}
  ELSE IF ~RegexBracketValid(q.bracket)
       THEN {RowsErr} \cup
            (IF \A k \in 1..Len(table) : ~WherePrefix(table[k], q)
             THEN {[ok |-> TRUE, rows |-> <<>>]} ELSE {})
  ELSE {[ok |-> TRUE, rows |-> Select(table, q)]}

\* mutation: DELETE ... RETURNING word
TableAfter_delete(table, q) == SelectSeq(table, LAMBDA w : ~WherePrefix(w, q))

\* word_list after the statement: a SELECT leaves it alone
TableAfter(table, q) == table

\* mutation: fetch_all(..).await.unwrap_or_default()
respond_default(res) == [status |-> "Ok", words |-> res.rows]

\* game.rs 49-56
respond(res) ==
  IF res.ok THEN [status |-> "Ok", words |-> res.rows]
  ELSE [status |-> "InternalServerError", words |-> <<>>]

(***************************************************************************)
(* Inputs                                                                  *)
(***************************************************************************)
RECURSIVE SeqsUpTo(_, _)
SeqsUpTo(S, n) ==
  IF n = 0 THEN {<<>>}
  ELSE LET P == SeqsUpTo(S, n - 1) IN P \cup {Append(s, c) : s \in P, c \in S}

\* characters of enumerated exact patterns: letters in both cases, the LIKE
\* one-character wildcard and the question mark
ExactChars == {"a", "A", "b", "_", "?"}

\* characters of enumerated correct / incorrect strings
SetChars == {"a", "A", "b"}

\* correct / incorrect pairs with at most MaxLetters letters together
LetterPairs ==
  {cx \in SeqsUpTo(SetChars, MaxLetters) \X SeqsUpTo(SetChars, MaxLetters) :
     Len(cx[1]) + Len(cx[2]) <= MaxLetters}

EnumRequests ==
  {[exact |-> e, correct |-> cx[1], incorrect |-> cx[2]] :
     e \in SeqsUpTo(ExactChars, MaxLen), cx \in LetterPairs}

ReqQuestion == [exact |-> <<"a", "?", "?", "?", "e">>, correct |-> <<"l">>, incorrect |-> <<"p">>]
ReqUnderscore == [exact |-> <<"a", "_", "_", "_", "e">>, correct |-> <<"l">>, incorrect |-> <<"p">>]
ReqUpper == [exact |-> <<"A", "_", "_", "_", "E">>, correct |-> <<"L">>, incorrect |-> <<"P">>]
ReqAllWild == [exact |-> <<"_", "_", "_", "_", "_">>, correct |-> <<>>, incorrect |-> <<>>]
ReqWildNoP == [exact |-> <<"_", "_", "_", "_", "_">>, correct |-> <<>>, incorrect |-> <<"p">>]
ReqAbsent == [exact |-> <<"a", "_", "_", "_", "e">>, correct |-> <<"b", "n">>, incorrect |-> <<"p">>]
ReqTwoLetters == [exact |-> <<"a", "_", "_", "_", "e">>, correct |-> <<"l", "n">>, incorrect |-> <<"p">>]

ScenarioRequests ==
  {ReqQuestion, ReqUnderscore, ReqUpper, ReqAllWild, ReqWildNoP, ReqAbsent, ReqTwoLetters}

Requests == EnumRequests \cup ScenarioRequests

apple == <<"a", "p", "p", "l", "e">>
angle == <<"a", "n", "g", "l", "e">>
ankle == <<"a", "n", "k", "l", "e">>
amble == <<"a", "m", "b", "l", "e">>

ScenarioCorpus == <<apple, angle, ankle, amble>>
SmallCorpus ==
  << <<"a">>, <<"b">>, <<"a", "b">>, <<"b", "a">>, <<"a", "a">>, <<"b", "b">>,
     <<"a", "b", "a">>, <<"b", "b", "a">>, <<"a", "a", "b", "b">> >>
MixedCorpus == << <<>>, <<"A">>, <<"a", "B">>, <<"B", "a">>, <<"b", "A", "b">>, <<"p", "a">> >>

Corpora == {ScenarioCorpus, SmallCorpus, MixedCorpus, <<>>}

Hdr(p, v, val) == [present |-> p, visible |-> v, value |-> val]
NoHeader == Hdr(FALSE, TRUE, <<>>)
BearerGood == Hdr(TRUE, TRUE, <<"Bearer ", "good">>)
BearerRevoked == Hdr(TRUE, TRUE, <<"Bearer ", "revoked">>)

Headers ==
  {NoHeader, BearerGood, BearerRevoked,
   Hdr(TRUE, FALSE, <<"Bearer ", "good">>),
   Hdr(TRUE, TRUE, <<"Basic ", "good">>),
   Hdr(TRUE, TRUE, <<"good">>),
   Hdr(TRUE, TRUE, <<"Bearer ", "garbage">>),
   Hdr(TRUE, TRUE, <<"Bearer ">>),
   Hdr(TRUE, TRUE, <<"Bearer ", "Bearer ", "good">>)}

\* header / body pairs of the sequential specification: every request with
\* the verifying header, every header with the scenario requests (the body
\* is not looked at before the gate)
Calls == ({BearerGood} \X Requests) \cup (Headers \X ScenarioRequests)

\* inputs of the concurrent specification
PoolRequests ==
  {ReqUnderscore, ReqAllWild, ReqWildNoP,
   [exact |-> <<"_", "a">>, correct |-> <<"b">>, incorrect |-> <<"p">>],
   [exact |-> <<"_">>, correct |-> <<>>, incorrect |-> <<"b">>],
   [exact |-> <<"a", "_">>, correct |-> <<"a">>, incorrect |-> <<"A">>]}
PoolHeaders == {BearerGood, BearerRevoked}
PoolCorpora == {ScenarioCorpus, MixedCorpus}
PoolCalls == PoolHeaders \X PoolRequests

(***************************************************************************)
(* State                                                                   *)
(*  inv[i]   one invocation of find_letters: where it is (pc), its inputs  *)
(*           (header, letters), the query it built, its response, and two  *)
(*           history fields: queries (corpus queries issued so far) and db *)
(*           (whether the database answered)                               *)
(*  corpus   the rows of word_list, in table order                         *)
(*  failed   some invocation has ended with a server error                 *)
(***************************************************************************)
NoLetters == [exact |-> <<>>, correct |-> <<>>, incorrect |-> <<>>]

Idle ==
  [pc |-> "idle", header |-> NoHeader, letters |-> NoLetters,
   query |-> build_query(NoLetters), db |-> "none",
   status |-> "none", words |-> <<>>, queries |-> 0]

Invocations == 1..NInv

Init ==
  /\ inv = [i \in Invocations |-> Idle]
  /\ corpus \in Corpora
  /\ failed = FALSE

InitConc ==
  /\ inv = [i \in Invocations |-> Idle]
  /\ corpus \in PoolCorpora
  /\ failed = FALSE

\* actix routes a POST /game/general-letters to find_letters
Arrive(i, calls) ==
  /\ inv[i].pc = "idle"
  /\ \E c \in calls :
       inv' = [inv EXCEPT ![i] = [Idle EXCEPT !.pc = "called", !.header = c[1], !.letters = c[2]]]
  /\ UNCHANGED <<corpus, failed>>

\* game.rs 29-39: no usable token, or a token that does not verify
Reject(i) ==
  /\ inv[i].pc = "called"
  /\ LET t == get_bearer_token(inv[i].header) IN
       \/ ~t.some
       \/ t.some /\ ~token_valid(t.tok)
  /\ inv' = [inv EXCEPT ![i].pc = "done", ![i].status = "Unauthorized"]
  /\ UNCHANGED <<corpus, failed>>

\* game.rs 29-48 up to the await: gate passed, query built and sent
Issue(i) ==
  /\ inv[i].pc = "called"
  /\ LET t == get_bearer_token(inv[i].header) IN t.some /\ token_valid(t.tok)
  /\ inv' = [inv EXCEPT ![i].pc = "awaiting",
                        ![i].query = build_query(inv[i].letters),
                        ![i].queries = inv[i].queries + 1]
  /\ UNCHANGED <<corpus, failed>>

\* game.rs 48-56: the database answers (or cannot be reached) and the
\* handler turns the outcome into the response
Complete(i, up) ==
  /\ inv[i].pc = "awaiting"
  /\ \E res \in fetch_all(corpus, inv[i].query, up) :
       LET r == respond(res) IN
         /\ inv' = [inv EXCEPT ![i].pc = "done",
                               ![i].db = IF up THEN "up" ELSE "down",
                               ![i].status = r.status,
                               ![i].words = r.words]
         /\ failed' = (failed \/ r.status = "InternalServerError")
  /\ corpus' = TableAfter(corpus, inv[i].query)

\* the response has been sent; the invocation's values are dropped
Return(i) ==
  /\ inv[i].pc = "done"
  /\ inv' = [inv EXCEPT ![i] = Idle]
  /\ UNCHANGED <<corpus, failed>>

\* one invocation at a time, every request of the input domain
Next ==
  \/ Arrive(1, Calls)
  \/ Reject(1)
  \/ Issue(1)
  \/ \E up \in BOOLEAN : Complete(1, up)
  \/ Return(1)

Spec == Init /\ [][Next]_vars

\* NInv invocations interleaved at their await points
NextConc ==
  \E i \in Invocations :
    \/ Arrive(i, PoolCalls)
    \/ Reject(i)
    \/ Issue(i)
    \/ \E up \in BOOLEAN : Complete(i, up)
    \/ Return(i)

SpecConc == InitConc /\ [][NextConc]_vars

(***************************************************************************)
(* The three predicates of the filter, stated on words and letters         *)
(***************************************************************************)
Wildcard == "_"

\* same length, and every position not holding the wildcard agrees
Positional(w, exact) ==
  /\ Len(w) = Len(exact)
  /\ \A k \in 1..Len(exact) : exact[k] # Wildcard => Fold(w[k]) = Fold(exact[k])

\* the same with '?' read as the wildcard
PositionalQ(w, exact) ==
  /\ Len(w) = Len(exact)
  /\ \A k \in 1..Len(exact) : exact[k] # "?" => Fold(w[k]) = Fold(exact[k])

HasLetter(w, c) == \E j \in 1..Len(w) : Fold(w[j]) = Fold(c)

RequiredOk(w, required) == \A k \in 1..Len(required) : HasLetter(w, required[k])

ExcludedOk(w, excluded) == \A k \in 1..Len(excluded) : ~HasLetter(w, excluded[k])

Satisfies(w, l) ==
  Positional(w, l.exact) /\ RequiredOk(w, l.correct) /\ ExcludedOk(w, l.incorrect)

Range(f) == {f[k] : k \in DOMAIN f}

SharesLetter(l) ==
  \E j \in 1..Len(l.correct) : \E k \in 1..Len(l.incorrect) :
    Fold(l.correct[j]) = Fold(l.incorrect[k])

\* the header is "Bearer " followed by a token for which verify_token is Ok(true)
BearerVerified(h) ==
  /\ h.present /\ h.visible
  /\ h.value # <<>> /\ Head(h.value) = "Bearer "
  /\ verify_token(trim_start_matches(h.value)) = "OkTrue"

Finished(i) == inv[i].pc = "done"
ReturnedList(i) == inv[i].pc = "done" /\ inv[i].status = "Ok"

(***************************************************************************)
(* Properties                                                              *)
(***************************************************************************)

\* C1: the corpus query is issued only for a Bearer header whose token
\* verifies as Ok(true); every other invocation ends Unauthorized without
\* having queried the corpus.
C1_GateBeforeQuery ==
  /\ inv[1].queries > 0 => BearerVerified(inv[1].header)
  /\ (Finished(1) /\ ~BearerVerified(inv[1].header)) =>
       /\ inv[1].status = "Unauthorized"
       /\ inv[1].queries = 0
       /\ inv[1].words = <<>>

C1_Witness ==
  /\ Finished(1)
  /\ inv[1].status = "Unauthorized"
  /\ inv[1].header = Hdr(TRUE, TRUE, <<"Bearer ", "garbage">>)

\* C2: every returned word satisfies the positional, the required-letters
\* and the excluded-letters predicate.
C2_Sound ==
  ReturnedList(1) =>
    \A k \in 1..Len(inv[1].words) : Satisfies(inv[1].words[k], inv[1].letters)

C2_Witness ==
  /\ ReturnedList(1)
  /\ Len(inv[1].words) >= 2
  /\ inv[1].letters.correct # <<>>
  /\ inv[1].letters.incorrect # <<>>
  /\ \E k \in 1..Len(corpus) :
       /\ Positional(corpus[k], inv[1].letters.exact)
       /\ ~ExcludedOk(corpus[k], inv[1].letters.incorrect)

\* C3: when a list is returned, every corpus word of the length of exact
\* that is not in it fails at least one of the three predicates.
C3_Complete ==
  ReturnedList(1) =>
    \A k \in 1..Len(corpus) :
      (Len(corpus[k]) = Len(inv[1].letters.exact) /\ corpus[k] \notin Range(inv[1].words))
        => ~Satisfies(corpus[k], inv[1].letters)

C3_Witness ==
  /\ ReturnedList(1)
  /\ Len(inv[1].letters.correct) = 2
  /\ inv[1].letters.correct[1] # inv[1].letters.correct[2]
  /\ inv[1].words # <<>>
  /\ \E k \in 1..Len(corpus) :
       Len(corpus[k]) = Len(inv[1].letters.exact) /\ corpus[k] \notin Range(inv[1].words)

\* C4 as stated: an authorized request with an empty exact ends with a
\* bad-request signal and without a corpus query.
C4_EmptyExactRejected ==
  (Finished(1) /\ Authorized(inv[1].header) /\ inv[1].letters.exact = <<>>) =>
    /\ inv[1].status = "BadRequest"
    /\ inv[1].queries = 0

\* C4 amended: an authorized request with an empty exact is not rejected;
\* the corpus is queried once, the invocation ends Ok or with a server
\* error, and a returned list holds zero-length words only.
C4_EmptyExactQueried ==
  (inv[1].pc \in {"awaiting", "done"} /\ Authorized(inv[1].header)
     /\ inv[1].letters.exact = <<>>) =>
    /\ inv[1].queries = 1
    /\ Finished(1) =>
         /\ inv[1].status \in {"Ok", "InternalServerError"}
         /\ \A k \in 1..Len(inv[1].words) : inv[1].words[k] = <<>>

C4_Witness ==
  /\ ReturnedList(1)
  /\ inv[1].letters.exact = <<>>
  /\ inv[1].words = << <<>> >>
  /\ Len(corpus) > 1

\* C5: with nothing excluded (and the database reachable) the call
\* succeeds and returns the words satisfying the other two predicates.
C5_EmptyExcludedSucceeds ==
  (Finished(1) /\ inv[1].db = "up" /\ inv[1].letters.incorrect = <<>>) =>
    /\ inv[1].status = "Ok"
    /\ inv[1].words =
         SelectSeq(corpus, LAMBDA w : Positional(w, inv[1].letters.exact)
                                        /\ RequiredOk(w, inv[1].letters.correct))

\* C6 as stated: '?' is the wildcard; the request a???e / l / p on the
\* four-word corpus returns angle, ankle, amble, and a '?' position never
\* keeps a word out.
C6_QuestionMarkWildcard ==
  /\ (ReturnedList(1) /\ corpus = ScenarioCorpus /\ inv[1].letters = ReqQuestion)
       => inv[1].words = <<angle, ankle, amble>>
  /\ ReturnedList(1) =>
       \A k \in 1..Len(corpus) :
         ( /\ PositionalQ(corpus[k], inv[1].letters.exact)
           /\ RequiredOk(corpus[k], inv[1].letters.correct)
           /\ ExcludedOk(corpus[k], inv[1].letters.incorrect) )
           => corpus[k] \in Range(inv[1].words)

\* C6 amended: '_' is the wildcard; the request a___e / l / p on the
\* four-word corpus returns angle, ankle, amble; a word is returned
\* whatever its letters at the '_' positions, provided the rest of the
\* request admits it; a '?' is matched literally, so a pattern holding one
\* returns no word made of letters.
C6_UnderscoreWildcard ==
  /\ (ReturnedList(1) /\ corpus = ScenarioCorpus /\ inv[1].letters = ReqUnderscore)
       => inv[1].words = <<angle, ankle, amble>>
  /\ (ReturnedList(1) /\ Wildcard \in Range(inv[1].letters.exact)) =>
       \A k \in 1..Len(corpus) :
         corpus[k] \in Range(inv[1].words) <=> Satisfies(corpus[k], inv[1].letters)
  /\ (ReturnedList(1) /\ "?" \in Range(inv[1].letters.exact)) => inv[1].words = <<>>

C6_Witness ==
  /\ ReturnedList(1)
  /\ corpus = ScenarioCorpus
  /\ inv[1].letters = ReqUnderscore
  /\ Len(inv[1].words) = 3

\* C7: a failed corpus query ends the invocation with a server error and
\* no word list, and after such a failure an invocation whose query the
\* database answers still ends Ok with the words the request selects.
C7_FailureScoped ==
  /\ (Finished(1) /\ inv[1].db = "down") =>
       (inv[1].status = "InternalServerError" /\ inv[1].words = <<>>)
  /\ (failed /\ Finished(1) /\ inv[1].db = "up" /\ inv[1].letters.incorrect # <<>>) =>
       /\ inv[1].status = "Ok"
       /\ inv[1].words = SelectSeq(corpus, LAMBDA w : Satisfies(w, inv[1].letters))

C7_Witness ==
  /\ failed
  /\ ReturnedList(1)
  /\ inv[1].db = "up"
  /\ inv[1].words # <<>>

\* C8: a request whose required and excluded letters overlap is never
\* rejected for it; both predicates are applied, so every such request
\* the database answers ends Ok with the empty list.
C8_SharedLetterRule ==
  (Finished(1) /\ SharesLetter(inv[1].letters)) =>
    /\ inv[1].status = "Ok" => inv[1].words = <<>>
    /\ inv[1].db = "up" => inv[1].status = "Ok"
    /\ inv[1].status \in {"Ok", "InternalServerError", "Unauthorized"}

C8_Witness ==
  /\ ReturnedList(1)
  /\ SharesLetter(inv[1].letters)
  /\ \E k \in 1..Len(corpus) :
       /\ Positional(corpus[k], inv[1].letters.exact)
       /\ RequiredOk(corpus[k], inv[1].letters.correct)

FoldLetters(l) ==
  [exact |-> FoldWord(l.exact), correct |-> FoldWord(l.correct),
   incorrect |-> FoldWord(l.incorrect)]

FoldTable(t) == [k \in 1..Len(t) |-> FoldWord(t[k])]

\* C9: the words returned are, up to case, the words the lower-cased
\* request selects from the lower-cased corpus, so no change of case in the
\* request or the corpus changes which words are returned.
C9_CaseInsensitive ==
  ReturnedList(1) =>
    FoldTable(inv[1].words) =
      SelectSeq(FoldTable(corpus), LAMBDA w : Where(w, build_query(FoldLetters(inv[1].letters))))

C9_Witness ==
  /\ ReturnedList(1)
  /\ inv[1].letters.incorrect # FoldWord(inv[1].letters.incorrect)
  /\ \E k \in 1..Len(inv[1].words) : \E j \in 1..Len(inv[1].words[k]) :
       inv[1].letters.exact[j] \notin {Wildcard, inv[1].words[k][j]}

\* C10: interleaved invocations each issue at most one corpus query, leave
\* the corpus as it is, return the words their own request selects from it,
\* and agree with each other when their requests are equal.
C10_Interleaved ==
  /\ [](\A i \in Invocations :
          /\ inv[i].queries <= 1
          /\ ReturnedList(i) =>
               inv[i].words = SelectSeq(corpus, LAMBDA w : Satisfies(w, inv[i].letters))
          /\ \A j \in Invocations :
               (ReturnedList(i) /\ ReturnedList(j) /\ inv[i].letters = inv[j].letters)
                 => inv[i].words = inv[j].words)
  /\ [][corpus' = corpus]_vars

C10_Witness ==
  /\ ReturnedList(1)
  /\ ReturnedList(2)
  /\ inv[1].letters = inv[2].letters
  /\ inv[1].words # <<>>

====
